---- MODULE Spec2Model ----
(***************************************************************************)
(* A model of otello's Mozart client (src/otello/mozart.py): JobType       *)
(* (schema resolution, parameter bindings, submission), Job (lifecycle     *)
(* actions and completion polling), JobSet (bulk polling) and the Mozart   *)
(* driver's job listing.                                                   *)
(*                                                                         *)
(* Python values are tagged records [t, v]; Python dicts with string keys  *)
(* are TLA+ functions over their key set.  Every call is one action that   *)
(* records in `last` the call, the HTTP requests it sent and its outcome.  *)
(***************************************************************************)
EXTENDS Integers, Sequences, FiniteSets, TLC

VARIABLES
    cfg_username,     \* self._cfg.get('username')
    server,           \* what the server holds: the schema and the recommended queues
    job_spec,         \* JobType.job_spec, a text as a sequence of characters
    hysds_ios,        \* JobType.hysds_ios
    queues,           \* JobType.queues
    default_queue,    \* JobType.default_queue
    dataset_params,   \* JobType._params['dataset_params']
    hardwired_params, \* JobType._params['hardwired_params']
    input_params,     \* JobType._params['input_params']
    job,              \* the Job handle the caller holds
    last,             \* the last call: operation, arguments, requests sent, outcome
    w_pc,             \* Job.wait_for_completion: position in the loop
    w_obs,            \* Job.wait_for_completion: outcome of every status query so far
    w_ret,            \* Job.wait_for_completion: returned status
    srv_settled,      \* the server answers every status query with a terminal status from now on
    job_set,          \* JobSet.job_set
    js_pc,            \* JobSet.wait_for_completion: position in the loop
    js_pass,          \* JobSet.wait_for_completion: number of the current pass
    js_obs,           \* JobSet.wait_for_completion: outcomes of the current pass, in member order
    completed_jobs,   \* JobSet.wait_for_completion: completed_jobs of the current pass
    js_errored,       \* members whose status query raised in an earlier pass of this wait
    js_repolled       \* members queried again after their query raised in an earlier pass

vars == <<cfg_username, server, job_spec, hysds_ios, queues, default_queue,
          dataset_params, hardwired_params, input_params, job, last,
          w_pc, w_obs, w_ret, srv_settled,
          job_set, js_pc, js_pass, js_obs, completed_jobs, js_errored, js_repolled>>

jobtype_vars == <<hysds_ios, queues, default_queue,
                  dataset_params, hardwired_params, input_params>>
wait_vars == <<w_pc, w_obs, w_ret, srv_settled>>
jobset_vars == <<job_set, js_pc, js_pass, js_obs, completed_jobs, js_errored, js_repolled>>

-----------------------------------------------------------------------------
(* Python values *)

None == [t |-> "none", v |-> 0]
Str(s) == [t |-> "str", v |-> s]
Num(n) == [t |-> "num", v |-> n]
Bool(b) == [t |-> "bool", v |-> b]
List(s) == [t |-> "list", v |-> s]
Dict(d) == [t |-> "dict", v |-> d]
EmptyDict == <<>>

\* Python truthiness, as used by `x or y` and `not x`.
Truthy(x) ==
    CASE x.t = "none" -> FALSE
      [] x.t = "str"  -> x.v # ""
      [] x.t = "num"  -> x.v # 0
      [] x.t = "bool" -> x.v
      [] x.t = "list" -> x.v # <<>>
      [] x.t = "dict" -> DOMAIN x.v # {}
      [] OTHER        -> TRUE

\* {**a, **b}
DictMerge(a, b) ==
    [k \in DOMAIN a \cup DOMAIN b |-> IF k \in DOMAIN b THEN b[k] ELSE a[k]]

\* d[k] = v
DictSet(d, k, v) == [x \in DOMAIN d \cup {k} |-> IF x = k THEN v ELSE d[x]]

\* d.get(k, dflt)
DictGet(d, k, dflt) == IF k \in DOMAIN d THEN d[k] ELSE dflt

NoError == [type |-> "none", msg |-> ""]
Err(type, msg) == [type |-> type, msg |-> msg]

-----------------------------------------------------------------------------
(* Text operations.  A text that the code takes apart (job_spec, a           *)
(* parameter's origin) is a sequence of tokens in which each separator the   *)
(* code looks for is a token of its own.                                     *)

RECURSIVE Join(_)
Join(toks) == IF toks = <<>> THEN "" ELSE Head(toks) \o Join(Tail(toks))

\* text.split(sep): the segments between the separator tokens
RECURSIVE SplitFrom(_, _, _)
SplitFrom(toks, sep, cur) ==
    IF toks = <<>> THEN <<Join(cur)>>
    ELSE IF Head(toks) = sep THEN <<Join(cur)>> \o SplitFrom(Tail(toks), sep, <<>>)
    ELSE SplitFrom(Tail(toks), sep, Append(cur, Head(toks)))
Split(toks, sep) == SplitFrom(toks, sep, <<>>)

\* text.replace(old, ''): every occurrence of the token is removed
RECURSIVE ReplaceEmpty(_, _)
ReplaceEmpty(toks, old) ==
    IF toks = <<>> THEN <<>>
    ELSE IF Head(toks) = old THEN ReplaceEmpty(Tail(toks), old)
    ELSE <<Head(toks)>> \o ReplaceEmpty(Tail(toks), old)

\* text.startswith('dataset_jpath')
StartsWithDatasetJpath(toks) == toks # <<>> /\ Head(toks) = "dataset_jpath:"

\* ast.literal_eval on the texts the schemas carry; any other text raises
LiteralEvalDefined(s) == s \in {"5", "True"}
LiteralEval(s) == IF s = "5" THEN Num(5) ELSE Bool(TRUE)

\* str.lower on the texts the schemas carry
Lower(s) == IF s \in {"True", "TRUE"} THEN "true" ELSE s

-----------------------------------------------------------------------------
(* The inputs: schemas the server may hold, datasets, arguments *)

HYSDS_IO == "hysds-io-hello:v1"
ErrorBody == "internal server error"

PValue(name, value) ==
    [name |-> name, from |-> <<"value">>, value |-> value]
PSubmitter(name, type, optional) ==
    [name |-> name, from |-> <<"submitter">>, type |-> type, optional |-> optional]
PSubmitterDefault(name, type, default, optional) ==
    [name |-> name, from |-> <<"submitter">>, type |-> type, default |-> default,
     optional |-> optional]
PDataset(name, path) ==
    [name |-> name, from |-> <<"dataset_jpath:", "_source.">> \o path]
PDatasetLambda(name, path, code) ==
    [name |-> name, from |-> <<"dataset_jpath:", "_source.">> \o path, lambda |-> code]

SchemaOf(params) ==
    [params |-> params, job_specification |-> Str("job-hello:v1"), label |-> Str("Hello")]

\* k1 is hardwired and a submitter parameter with a numeric default given as text
Schema1 == SchemaOf(<<PValue("k1", Str("hw")),
                      PSubmitterDefault("k1", "number", Str("5"), FALSE)>>)
\* k1 comes from the dataset id and is hardwired; k2 is required and has no default
Schema2 == SchemaOf(<<PDataset("k1", <<"_id">>),
                      PValue("k1", Str("hw")),
                      PSubmitter("k2", "text", FALSE)>>)
\* k2 comes from a dataset path and is an optional boolean submitter parameter
Schema3 == SchemaOf(<<PDataset("k2", <<"a", ".", "b">>),
                      PSubmitterDefault("k2", "boolean", Str("True"), TRUE),
                      PSubmitterDefault("k1", "number", Num(7), FALSE)>>)
\* k2 is extracted by an expression and hardwired; k1 has a numeric default that is
\* no literal, so that seeding raises after the schema is stored
Schema4 == SchemaOf(<<PDatasetLambda("k2", <<"_id">>, "lambda ds: ..."),
                      PValue("k2", Num(1)),
                      PSubmitterDefault("k1", "number", Str("abc"), FALSE)>>)
Schemas == {Schema1, Schema2, Schema3, Schema4}

RecommendedLists == {<<>>, <<Str("q1"), Str("q2")>>}
QueuesOf(rec) == [recommended |-> rec, queues |-> <<Str("q1"), Str("q2"), Str("q3")>>]

Usernames == {None, Str("alice")}
JobSpecs == {<<"job-hello", ":", "v1">>, <<"job-hello", ":", "v1", ":", "b2">>}

Dataset1 == Dict(("id" :> Str("X123")) @@ ("a" :> Dict("b" :> Str("v"))))
Dataset2 == Dict("id" :> Str("X9"))
DatasetArgs == {None, Dataset1, Dataset2}

ParamsArgs == {Dict("k1" :> Str("u1")),
               Dict(("k1" :> Num(3)) @@ ("k2" :> Str("u2"))),
               Dict(EmptyDict),
               List(<<Str("k1")>>)}

QueueArgs == {None, Str(""), Str("q3")}
TagArgs == {None, Str("mytag")}
PriorityArgs == {-1, 5, 10}
Timestamps == {"2020-01-01T00:00:00"}
JobIds == {Str("job-999"), Str("job-1000")}

-----------------------------------------------------------------------------
(* HTTP and the record of a call *)

Req(method, endpoint, data) == [method |-> method, endpoint |-> endpoint, data |-> data]

\* A response of the server: 200 with the JSON result, or a failure with a body.
Ok(result) == [status_code |-> 200, text |-> "", result |-> result]
Fail == [status_code |-> 500, text |-> ErrorBody, result |-> None]

\* One call: the operation, its arguments, the requests it sent and the
\* responses it received, in order, and how it ended.
Call(op, args, sent, recv, error, ret) ==
    [op |-> op, args |-> args, sent |-> sent, recv |-> recv,
     outcome |-> IF error = NoError THEN "return" ELSE "raise",
     error |-> error, ret |-> ret]

NoArgs == [none |-> None]
NoCall == Call("new", NoArgs, <<>>, <<>>, NoError, None)

\* Mutant: the error carries the status code, not the response body
HttpError_StatusCode(resp) == Err("Exception", ToString(resp.status_code))

\* raise Exception(req.text)
HttpError(resp) == Err("Exception", resp.text)

-----------------------------------------------------------------------------
(* JobType._retrieve_hysds_ios: seeding of the parameter bindings *)

\* Mutant: the default is stored as the schema gives it, without coercion
SeedDefault_NoCoercion(p) == [error |-> NoError, value |-> DictGet(p, "default", None)]

\* The default of a submitter parameter after the coercions of the loop body:
\* [error, value].
SeedDefault(p) ==
    LET d0 == DictGet(p, "default", None)
        numRaises == p.type = "number" /\ d0.t = "str" /\ ~LiteralEvalDefined(d0.v)
        d1 == IF p.type = "number" /\ d0.t = "str" /\ LiteralEvalDefined(d0.v)
              THEN LiteralEval(d0.v) ELSE d0
        boolRaises == p.type = "boolean" /\ d1.t \notin {"none", "bool", "str"}
        d2 == IF p.type = "boolean" /\ d1.t = "str"
              THEN Bool(Lower(d1.v) = "true") ELSE d1
    IN  IF numRaises THEN [error |-> Err("ValueError", "malformed node or string"), value |-> None]
        ELSE IF boolRaises THEN [error |-> Err("AttributeError", "lower"), value |-> None]
        ELSE [error |-> NoError, value |-> d2]

\* Mutant: a submitter parameter that has a value already keeps it
RECURSIVE SeedParams_KeepExisting(_, _, _, _)
SeedParams_KeepExisting(params, i, hw, inp) ==
    IF i > Len(params) THEN [error |-> NoError, hardwired |-> hw, input |-> inp]
    ELSE LET p == params[i] IN
         IF p.from = <<"value">>
         THEN SeedParams_KeepExisting(params, i + 1, DictSet(hw, p.name, p.value), inp)
         ELSE IF p.from = <<"submitter">>
         THEN LET d == SeedDefault(p) IN
              IF d.error # NoError
              THEN [error |-> d.error, hardwired |-> hw, input |-> inp]
              ELSE SeedParams_KeepExisting(params, i + 1, hw,
                       IF p.name \in DOMAIN inp THEN inp ELSE DictSet(inp, p.name, d.value))
         ELSE SeedParams_KeepExisting(params, i + 1, hw, inp)

\* for p in params: ..., from parameter i on; stops at the first error.
RECURSIVE SeedParams(_, _, _, _)
SeedParams(params, i, hw, inp) ==
    IF i > Len(params) THEN [error |-> NoError, hardwired |-> hw, input |-> inp]
    ELSE LET p == params[i] IN
         IF p.from = <<"value">>
         THEN SeedParams(params, i + 1, DictSet(hw, p.name, p.value), inp)
         ELSE IF p.from = <<"submitter">>
         THEN LET d == SeedDefault(p) IN
              IF d.error # NoError
              THEN [error |-> d.error, hardwired |-> hw, input |-> inp]
              ELSE SeedParams(params, i + 1, hw, DictSet(inp, p.name, d.value))
         ELSE SeedParams(params, i + 1, hw, inp)

\* JobType.initialize(): _retrieve_hysds_ios() then _retrieve_queues()
Initialize ==
    /\ \E r1 \in {Ok(server.schema), Fail}, r2 \in {Ok(server.queues), Fail} :
        LET req1 == Req("GET", "grq/api/v0.1/hysds_io/type", [id |-> Str(HYSDS_IO)])
            req2 == Req("GET", "mozart/api/v0.1/queue/list", [id |-> Str(Join(job_spec))])
            seeded == SeedParams(r1.result.params, 1, hardwired_params, input_params)
            rec == DictGet(r2.result, "recommended", <<>>)
        IN  IF r1.status_code # 200
            THEN /\ last' = Call("initialize", NoArgs, <<req1>>, <<r1>>, HttpError(r1), None)
                 /\ UNCHANGED jobtype_vars
            ELSE /\ hysds_ios' = r1.result
                 /\ hardwired_params' = seeded.hardwired
                 /\ input_params' = seeded.input
                 /\ UNCHANGED dataset_params
                 /\ IF seeded.error # NoError
                    THEN /\ last' = Call("initialize", NoArgs, <<req1>>, <<r1>>, seeded.error, None)
                         /\ UNCHANGED <<queues, default_queue>>
                    ELSE IF r2.status_code # 200
                    THEN /\ last' = Call("initialize", NoArgs, <<req1, req2>>, <<r1, r2>>,
                                         HttpError(r2), None)
                         /\ UNCHANGED <<queues, default_queue>>
                    ELSE /\ last' = Call("initialize", NoArgs, <<req1, req2>>, <<r1, r2>>,
                                         NoError, None)
                         /\ queues' = r2.result
                         /\ default_queue' = IF Len(rec) > 0 THEN rec[1] ELSE default_queue
    /\ UNCHANGED <<cfg_username, server, job_spec, job, wait_vars, jobset_vars>>

NotInitialized ==
    Err("Exception",
        "Job specifications is empty, please initialize the JobType with .initialize()")

\* JobType.describe(): prints the description; no state, no request
Describe ==
    /\ last' = Call("describe", NoArgs, <<>>, <<>>,
                    IF DOMAIN hysds_ios = {} THEN NotInitialized ELSE NoError, None)
    /\ UNCHANGED <<cfg_username, server, job_spec, jobtype_vars, job, wait_vars, jobset_vars>>

\* Mutant: the given values replace input_params instead of being merged into it
SetInputParams_Replace ==
    \E params \in ParamsArgs :
        /\ IF params.t # "dict"
           THEN /\ last' = Call("set_input_params", [params |-> params], <<>>, <<>>,
                                Err("Exception", "params must be dictionary"), None)
                /\ UNCHANGED input_params
           ELSE /\ last' = Call("set_input_params", [params |-> params], <<>>, <<>>,
                                NoError, None)
                /\ input_params' = params.v
        /\ UNCHANGED <<cfg_username, server, job_spec, hysds_ios, queues, default_queue,
                       dataset_params, hardwired_params, job, wait_vars, jobset_vars>>

\* JobType.set_input_params(params)
SetInputParams ==
    \E params \in ParamsArgs :
        /\ IF params.t # "dict"
           THEN /\ last' = Call("set_input_params", [params |-> params], <<>>, <<>>,
                                Err("Exception", "params must be dictionary"), None)
                /\ UNCHANGED input_params
           ELSE /\ last' = Call("set_input_params", [params |-> params], <<>>, <<>>,
                                NoError, None)
                /\ input_params' = DictMerge(input_params, params.v)
        /\ UNCHANGED <<cfg_username, server, job_spec, hysds_ios, queues, default_queue,
                       dataset_params, hardwired_params, job, wait_vars, jobset_vars>>

-----------------------------------------------------------------------------
(* JobType.set_input_dataset *)

\* for path in parsed_path: ds = ds[path]
RECURSIVE Walk(_, _, _)
Walk(ds, path, i) ==
    IF i > Len(path) THEN [error |-> NoError, value |-> ds]
    ELSE IF ds.t = "dict" /\ path[i] \in DOMAIN ds.v THEN Walk(ds.v[path[i]], path, i + 1)
    ELSE IF ds.t = "dict" THEN [error |-> Err("KeyError", path[i]), value |-> None]
    ELSE [error |-> Err("TypeError", path[i]), value |-> None]

\* p['from'].replace('dataset_jpath:', '').replace('_source.', '')
ParsedPath(p) == ReplaceEmpty(ReplaceEmpty(p.from, "dataset_jpath:"), "_source.")

\* Mutant: the path '_id' is walked like any other path
ExtractDataset_NoIdCase(p, dataset, lam) ==
    IF "lambda" \in DOMAIN p THEN lam
    ELSE Walk(Dict(dataset.v), Split(ParsedPath(p), "."), 1)

\* The value one dataset parameter is bound to: [error, value].  `lam` is the
\* outcome of evaluating and applying the parameter's extraction expression.
ExtractDataset(p, dataset, lam) ==
    IF "lambda" \in DOMAIN p THEN lam
    ELSE IF Join(ParsedPath(p)) = "_id" THEN Walk(dataset, <<"id">>, 1)
    ELSE Walk(Dict(dataset.v), Split(ParsedPath(p), "."), 1)

\* for p in dataset_params: ..., from parameter i on; stops at the first error.
RECURSIVE BindDataset(_, _, _, _, _)
BindDataset(params, i, dataset, lam, dp) ==
    IF i > Len(params) THEN [error |-> NoError, dataset_params |-> dp]
    ELSE LET p == params[i] IN
         IF ~StartsWithDatasetJpath(p.from) THEN BindDataset(params, i + 1, dataset, lam, dp)
         ELSE LET x == ExtractDataset(p, dataset, lam) IN
              IF x.error # NoError THEN [error |-> x.error, dataset_params |-> dp]
              ELSE BindDataset(params, i + 1, dataset, lam, DictSet(dp, p.name, x.value))

LambdaOutcomes == {[error |-> NoError, value |-> Str("extracted")],
                   [error |-> Err("Exception", "extraction failed"), value |-> None]}

SetInputDataset ==
    \E dataset \in DatasetArgs, lam \in LambdaOutcomes :
        /\ IF dataset = None
           THEN /\ last' = Call("set_input_dataset", [dataset |-> dataset], <<>>, <<>>,
                                Err("Exception", "dataset must be set for your job"), None)
                /\ UNCHANGED dataset_params
           ELSE IF DOMAIN hysds_ios = {}
           THEN /\ last' = Call("set_input_dataset", [dataset |-> dataset], <<>>, <<>>,
                                NotInitialized, None)
                /\ UNCHANGED dataset_params
           ELSE LET b == BindDataset(hysds_ios.params, 1, dataset, lam, dataset_params) IN
                /\ last' = Call("set_input_dataset", [dataset |-> dataset], <<>>, <<>>,
                                b.error, None)
                /\ dataset_params' = b.dataset_params
        /\ UNCHANGED <<cfg_username, server, job_spec, hysds_ios, queues, default_queue,
                       hardwired_params, input_params, job, wait_vars, jobset_vars>>

-----------------------------------------------------------------------------
(* Job construction, tags and the submission payload *)

\* otello.utils.generate_tags(action): a namespace token, the action label and
\* the current time
generate_tags(action, now) == Str("otello_" \o action \o "_" \o now)

\* Mutant: a tag given as a text is stored as given, not wrapped in a list
JobNew_TagsAsGiven(job_id, tags) ==
    IF tags.t \in {"none", "str", "list"}
    THEN [error |-> NoError, job |-> [job_id |-> job_id, tags |-> tags]]
    ELSE [error |-> Err("TypeError", "tags must be type {str, list}"), job |-> None]

\* Job.__init__(job_id, tags): [error, job]
JobNew(job_id, tags) ==
    IF tags.t = "none" THEN [error |-> NoError, job |-> [job_id |-> job_id, tags |-> None]]
    ELSE IF tags.t = "str"
    THEN [error |-> NoError, job |-> [job_id |-> job_id, tags |-> List(<<tags>>)]]
    ELSE IF tags.t = "list" THEN [error |-> NoError, job |-> [job_id |-> job_id, tags |-> tags]]
    ELSE [error |-> Err("TypeError", "tags must be type {str, list}"), job |-> None]

JobValue(j) == [t |-> "Job", v |-> j]

\* json.dumps(x): the JSON document, an object as a function from its keys
RECURSIVE json_dumps(_)
json_dumps(x) ==
    CASE x.t = "none" -> "null"
      [] x.t = "str"  -> "\"" \o x.v \o "\""
      [] x.t = "num"  -> ToString(x.v)
      [] x.t = "bool" -> IF x.v THEN "true" ELSE "false"
      [] x.t = "list" -> [i \in DOMAIN x.v |-> json_dumps(x.v[i])]
      [] x.t = "dict" -> [k \in DOMAIN x.v |-> json_dumps(x.v[k])]

\* '["%s"]' % tag
FormatTags(tag) == Str("[\"" \o tag.v \o "\"]")

\* job_spec.split(':')[0]
JobName(spec) == Split(spec, ":")[1]

\* Mutant: the hardwired values merged last, {**dataset, **input, **hardwired}
MergedParams_HardwiredLast(dp, hw, inp) == DictMerge(DictMerge(dp, inp), hw)

\* {**dataset_params, **hardwired_params, **input_params}
MergedParams(dp, hw, inp) == DictMerge(DictMerge(dp, hw), inp)

\* queue or self.default_queue
ResolveQueue(queue, dflt) == IF Truthy(queue) THEN queue ELSE dflt

\* priority as submit_job places it in the payload
SubmitPriority(priority) == priority

\* job_payload of JobType.submit_job
SubmitPayload(username, queue, tag, priority) ==
    [username |-> username,
     queue |-> ResolveQueue(queue, default_queue),
     priority |-> SubmitPriority(priority),
     job_name |-> Str(JobName(job_spec)),
     tags |-> FormatTags(tag),
     type |-> Str(Join(job_spec)),
     params |-> json_dumps(Dict(MergedParams(dataset_params, hardwired_params, input_params))),
     enable_dedup |-> Bool(FALSE)]

\* What the server may answer to a submission
SubmitResponses == {Ok(id) : id \in JobIds} \cup {Fail}

\* Mutant: a successful submission consumes the input parameters
SubmitJob_ClearsInput ==
    /\ \E queue \in QueueArgs, tag0 \in TagArgs, priority \in PriorityArgs,
          now \in Timestamps, resp \in SubmitResponses :
        LET args == [queue |-> queue, tag |-> tag0, priority |-> priority, now |-> now]
            tag == IF tag0 = None THEN generate_tags("submit_job", now) ELSE tag0
            req == Req("POST", "mozart/api/v0.1/job/submit",
                       SubmitPayload(cfg_username, queue, tag, priority))
            new == JobNew(resp.result, tag)
        IN  IF queue = None /\ default_queue = None
            THEN /\ last' = Call("submit_job", args, <<>>, <<>>,
                                 Err("Exception", "queue must be supplied"), None)
                 /\ UNCHANGED input_params
            ELSE IF cfg_username = None
            THEN /\ last' = Call("submit_job", args, <<>>, <<>>,
                                 Err("RuntimeError",
                                     "username not found, please initialize otello"), None)
                 /\ UNCHANGED input_params
            ELSE IF resp.status_code # 200
            THEN /\ last' = Call("submit_job", args, <<req>>, <<resp>>, HttpError(resp), None)
                 /\ UNCHANGED input_params
            ELSE IF new.error # NoError
            THEN /\ last' = Call("submit_job", args, <<req>>, <<resp>>, new.error, None)
                 /\ UNCHANGED input_params
            ELSE /\ last' = Call("submit_job", args, <<req>>, <<resp>>, NoError,
                                 JobValue(new.job))
                 /\ input_params' = EmptyDict
    /\ UNCHANGED <<cfg_username, server, job_spec, hysds_ios, queues, default_queue,
                   dataset_params, hardwired_params, job, wait_vars, jobset_vars>>

\* JobType.submit_job(queue, tag, priority)
SubmitJob ==
    /\ \E queue \in QueueArgs, tag0 \in TagArgs, priority \in PriorityArgs,
          now \in Timestamps, resp \in SubmitResponses :
        LET args == [queue |-> queue, tag |-> tag0, priority |-> priority, now |-> now]
            tag == IF tag0 = None THEN generate_tags("submit_job", now) ELSE tag0
            req == Req("POST", "mozart/api/v0.1/job/submit",
                       SubmitPayload(cfg_username, queue, tag, priority))
            new == JobNew(resp.result, tag)
        IN  last' =
              IF queue = None /\ default_queue = None
              THEN Call("submit_job", args, <<>>, <<>>,
                        Err("Exception", "queue must be supplied"), None)
              ELSE IF cfg_username = None
              THEN Call("submit_job", args, <<>>, <<>>,
                        Err("RuntimeError", "username not found, please initialize otello"), None)
              ELSE IF resp.status_code # 200
              THEN Call("submit_job", args, <<req>>, <<resp>>, HttpError(resp), None)
              ELSE IF new.error # NoError
              THEN Call("submit_job", args, <<req>>, <<resp>>, new.error, None)
              ELSE Call("submit_job", args, <<req>>, <<resp>>, NoError, JobValue(new.job))
    /\ UNCHANGED <<cfg_username, server, job_spec, jobtype_vars, job, wait_vars, jobset_vars>>

-----------------------------------------------------------------------------
(* Job.revoke, Job.remove, Job.retry *)

PURGE_JOB_NAME == "job-lw-mozart-purge"
RETRY_JOB_NAME == "job-lw-mozart-retry"
DefaultVersion == "v1.0.5"

\* if 9 < priority < 0: priority = 5
ManagePriority(priority) == IF 9 < priority /\ priority < 0 THEN 5 ELSE priority

\* params of revoke (operation "revoke") and remove (operation "purge")
PurgeParams(job_id, operation) ==
    Dict(("query" :> Dict("query" :> Dict("bool" :> Dict("must" :>
              List(<<Dict("term" :> Dict("_id" :> job_id))>>)))))
         @@ ("operation" :> Str(operation))
         @@ ("component" :> Str("mozart")))

\* params of retry
RetryParams(job_info_id) ==
    Dict(("retry_count_max" :> Num(10))
         @@ ("job_priority_increment" :> Num(1))
         @@ ("type" :> Str("_doc"))
         @@ ("retry_job_id" :> job_info_id))

\* job_payload of revoke, remove and retry
ManagePayload(job_name, params, tags, priority, version) ==
    [queue |-> Str("system-jobs-queue"),
     priority |-> ManagePriority(priority),
     job_name |-> Str(job_name),
     tags |-> FormatTags(tags),
     type |-> Str(job_name \o ":" \o version),
     params |-> json_dumps(params),
     enable_dedup |-> Bool(FALSE)]

\* Mutant: the handle returned is the one the action was called on
ManageCall_OriginalJob(op, args, sent0, recv0, payload, tags, resp) ==
    LET req == Req("POST", "mozart/api/v0.1/job/submit", payload)
        sent == Append(sent0, req)
        recv == Append(recv0, resp)
    IN  IF resp.status_code # 200 THEN Call(op, args, sent, recv, HttpError(resp), None)
        ELSE Call(op, args, sent, recv, NoError, JobValue(job))

\* The common tail of the three: POST the payload, build the new Job.
ManageCall(op, args, sent0, recv0, payload, tags, resp) ==
    LET req == Req("POST", "mozart/api/v0.1/job/submit", payload)
        new == JobNew(resp.result, tags)
        sent == Append(sent0, req)
        recv == Append(recv0, resp)
    IN  IF resp.status_code # 200 THEN Call(op, args, sent, recv, HttpError(resp), None)
        ELSE IF new.error # NoError THEN Call(op, args, sent, recv, new.error, None)
        ELSE Call(op, args, sent, recv, NoError, JobValue(new.job))

\* Job.revoke(tags, priority) and Job.remove(tags, priority)
Purge(op, label, operation) ==
    \E tags0 \in TagArgs, priority \in PriorityArgs, now \in Timestamps,
       resp \in SubmitResponses :
        LET args == [tags |-> tags0, priority |-> priority, now |-> now]
            tags == IF tags0 = None THEN generate_tags(label, now) ELSE tags0
        IN  last' = ManageCall(op, args, <<>>, <<>>,
                               ManagePayload(PURGE_JOB_NAME, PurgeParams(job.job_id, operation),
                                             tags, priority, DefaultVersion),
                               tags, resp)

Revoke ==
    /\ Purge("revoke", "revoke", "revoke")
    /\ UNCHANGED <<cfg_username, server, job_spec, jobtype_vars, job, wait_vars, jobset_vars>>

Remove ==
    /\ Purge("remove", "purge", "purge")
    /\ UNCHANGED <<cfg_username, server, job_spec, jobtype_vars, job, wait_vars, jobset_vars>>

\* What the server may answer to job/info for the held job: the record with
\* or without the nested job_info id, or a failure.
InfoResponses == {Ok(Dict("job" :> Dict("job_info" :> Dict("id" :> Str("info-1"))))),
                  Ok(Dict("job" :> Dict("job_info" :> Dict(EmptyDict)))),
                  Fail}

\* Job.retry(tags, priority)
Retry ==
    /\ \E tags0 \in TagArgs, priority \in PriorityArgs, now \in Timestamps,
          info \in InfoResponses, resp \in SubmitResponses :
        LET args == [tags |-> tags0, priority |-> priority, now |-> now]
            tags == IF tags0 = None THEN generate_tags("retry", now) ELSE tags0
            reqInfo == Req("GET", "mozart/api/v0.1/job/info", [id |-> job.job_id])
            id == Walk(info.result, <<"job", "job_info", "id">>, 1)
        IN  last' =
              IF info.status_code # 200
              THEN Call("retry", args, <<reqInfo>>, <<info>>, HttpError(info), None)
              ELSE IF id.error # NoError
              THEN Call("retry", args, <<reqInfo>>, <<info>>, id.error, None)
              ELSE ManageCall("retry", args, <<reqInfo>>, <<info>>,
                              ManagePayload(RETRY_JOB_NAME, RetryParams(id.value),
                                            tags, priority, DefaultVersion),
                              tags, resp)
    /\ UNCHANGED <<cfg_username, server, job_spec, jobtype_vars, job, wait_vars, jobset_vars>>

-----------------------------------------------------------------------------
(* The JobType and Job operations as a state machine *)

HeldJob == [job_id |-> Str("job-1"), tags |-> List(<<Str("t0")>>)]
OtherJob == [job_id |-> Str("job-2"), tags |-> None]

\* JobType.__init__: nothing resolved, nothing bound
JobTypeNew ==
    /\ hysds_ios = EmptyDict /\ queues = EmptyDict /\ default_queue = None
    /\ dataset_params = EmptyDict /\ hardwired_params = EmptyDict /\ input_params = EmptyDict

WaitIdle == /\ w_pc = "idle" /\ w_obs = <<>> /\ w_ret = None /\ srv_settled = FALSE
JobSetIdle ==
    /\ job_set = <<>> /\ js_pc = "idle" /\ js_pass = 0 /\ js_obs = <<>>
    /\ completed_jobs = 0 /\ js_errored = {} /\ js_repolled = {}

\* JobType.__init__ and Job.__init__
Init ==
    /\ cfg_username \in Usernames
    /\ server \in [schema : Schemas, queues : {QueuesOf(r) : r \in RecommendedLists}]
    /\ job_spec \in JobSpecs
    /\ JobTypeNew
    /\ job = HeldJob
    /\ last = NoCall
    /\ WaitIdle
    /\ JobSetIdle

Next ==
    \/ Initialize
    \/ Describe
    \/ SetInputParams
    \/ SetInputDataset
    \/ SubmitJob

Spec == Init /\ [][Next]_vars

-----------------------------------------------------------------------------
(* Job.get_status, Job.get_info and the queries built on them *)

QUEUED == "job-queued"
STARTED == "job-started"
COMPLETED == "job-completed"
FAILED == "job-failed"
OFFLINE == "job-offline"
DEDUPED == "job-deduped"

\* The states a job can be in, as the server reports them
JobStatuses == {QUEUED, STARTED, COMPLETED, FAILED, DEDUPED, OFFLINE}

\* What the server may answer to a status query
StatusResponses == {Ok(Str(st)) : st \in JobStatuses} \cup {Fail}

\* Job.get_status(): [error, value]
get_status(resp) ==
    IF resp.status_code # 200 THEN [error |-> HttpError(resp), value |-> None]
    ELSE [error |-> NoError, value |-> resp.result]

\* Job.get_status() as a call
GetStatus ==
    /\ \E resp \in StatusResponses :
        LET st == get_status(resp)
            req == Req("GET", "mozart/api/v0.1/job/status", [id |-> job.job_id])
        IN  last' = Call("get_status", NoArgs, <<req>>, <<resp>>, st.error, st.value)
    /\ UNCHANGED <<cfg_username, server, job_spec, jobtype_vars, job, wait_vars, jobset_vars>>

\* The record the server holds for a job: its status, error and traceback
InfoRecord(st) ==
    Dict(("status" :> Str(st)) @@ ("error" :> Str("boom"))
         @@ ("traceback" :> Str("Traceback (most recent call last)")))

\* The record of a failed job that carries neither error nor traceback
BareRecord == Dict("status" :> Str(FAILED))

\* What the server may answer to job/info
RecordResponses == {Ok(InfoRecord(st)) : st \in JobStatuses} \cup {Ok(BareRecord), Fail}

\* Job.get_info(): [error, value]
get_info(resp) ==
    IF resp.status_code # 200 THEN [error |-> HttpError(resp), value |-> None]
    ELSE [error |-> NoError, value |-> resp.result]

\* Job.get_info() as a call
GetInfo ==
    /\ \E resp \in RecordResponses :
        LET info == get_info(resp)
            req == Req("GET", "mozart/api/v0.1/job/info", [id |-> job.job_id])
        IN  last' = Call("get_info", NoArgs, <<req>>, <<resp>>, info.error, info.value)
    /\ UNCHANGED <<cfg_username, server, job_spec, jobtype_vars, job, wait_vars, jobset_vars>>

\* Mutant: the field is returned whatever the status of the job
FailedField_AnyStatus(info, field) == Walk(info, <<field>>, 1)

\* job_status = info['status']; return info[field] if job_status == 'job-failed',
\* else raise ValueError: [error, value]
FailedField(info, field) ==
    LET job_status == Walk(info, <<"status">>, 1) IN
    IF job_status.error # NoError THEN job_status
    ELSE IF job_status.value = Str(FAILED) THEN Walk(info, <<field>>, 1)
    ELSE [error |-> Err("ValueError", "job status did not fail: " \o job_status.value.v),
          value |-> None]

\* Job.get_exception() (field 'error') and Job.get_traceback() (field 'traceback')
GetField(op, field) ==
    \E resp \in RecordResponses :
        LET info == get_info(resp)
            req == Req("GET", "mozart/api/v0.1/job/info", [id |-> job.job_id])
            x == FailedField(info.value, field)
        IN  last' = IF info.error # NoError
                    THEN Call(op, NoArgs, <<req>>, <<resp>>, info.error, None)
                    ELSE Call(op, NoArgs, <<req>>, <<resp>>, x.error, x.value)

GetException ==
    /\ GetField("get_exception", "error")
    /\ UNCHANGED <<cfg_username, server, job_spec, jobtype_vars, job, wait_vars, jobset_vars>>

GetTraceback ==
    /\ GetField("get_traceback", "traceback")
    /\ UNCHANGED <<cfg_username, server, job_spec, jobtype_vars, job, wait_vars, jobset_vars>>

\* What the server may answer to job/products/<job_id>
ProductsResponses == {Ok(List(<<Str("s3://bucket/product-1")>>)), Ok(List(<<>>)), Fail}

\* Job.get_generated_products()
GetGeneratedProducts ==
    /\ \E resp \in ProductsResponses :
        LET req == Req("GET", "mozart/api/v0.1/job/products/" \o job.job_id.v, EmptyDict) IN
        last' = IF resp.status_code # 200
                THEN Call("get_generated_products", NoArgs, <<req>>, <<resp>>,
                          HttpError(resp), None)
                ELSE Call("get_generated_products", NoArgs, <<req>>, <<resp>>,
                          NoError, resp.result)
    /\ UNCHANGED <<cfg_username, server, job_spec, jobtype_vars, job, wait_vars, jobset_vars>>

\* A caller that resolves a JobType, submits from it, and queries and manages
\* the job it holds
NextJob ==
    \/ Initialize
    \/ SubmitJob
    \/ GetStatus
    \/ GetInfo
    \/ GetException
    \/ GetTraceback
    \/ GetGeneratedProducts
    \/ Revoke
    \/ Remove
    \/ Retry

InitJob ==
    /\ cfg_username \in Usernames
    /\ server = [schema |-> Schema1, queues |-> QueuesOf(<<>>)]
    /\ job_spec \in JobSpecs
    /\ JobTypeNew
    /\ job \in {HeldJob, OtherJob}
    /\ last = NoCall
    /\ WaitIdle /\ JobSetIdle

SpecJob == InitJob /\ [][NextJob]_vars

\* Mutant: only completion and failure end the wait
IsTerminal_CompletedOrFailed(status) == status \in {Str(FAILED), Str(COMPLETED)}

\* status in ('job-failed', 'job-deduped', 'job-completed', 'job-offline')
IsTerminal(status) == status \in {Str(FAILED), Str(DEDUPED), Str(COMPLETED), Str(OFFLINE)}

-----------------------------------------------------------------------------
(* Job.wait_for_completion *)

MaxPolls == 3

\* time.sleep(3), then the loop is entered
WaitStart ==
    /\ w_pc = "idle"
    /\ w_pc' = "poll"
    /\ UNCHANGED <<w_obs, w_ret, srv_settled>>
    /\ UNCHANGED <<cfg_username, server, job_spec, jobtype_vars, job, last, jobset_vars>>

\* The job reaches a state the server reports as terminal and stays there
ServerSettle ==
    /\ ~srv_settled
    /\ srv_settled' = TRUE
    /\ UNCHANGED <<w_pc, w_obs, w_ret>>
    /\ UNCHANGED <<cfg_username, server, job_spec, jobtype_vars, job, last, jobset_vars>>

\* What the server answers to a status query of the wait
WaitResponses ==
    IF srv_settled THEN {Ok(Str(st)) : st \in {COMPLETED, FAILED, DEDUPED, OFFLINE}}
    ELSE StatusResponses

\* Mutant: an error of the status query ends the wait
WaitPoll_ErrorEnds ==
    /\ w_pc = "poll"
    /\ Len(w_obs) < MaxPolls \/ (srv_settled /\ Len(w_obs) = MaxPolls)
    /\ \E resp \in WaitResponses :
        LET st == get_status(resp) IN
        /\ w_obs' = Append(w_obs, st)
        /\ IF st.error # NoError
           THEN /\ w_pc' = "returned"
                /\ UNCHANGED w_ret
           ELSE IF IsTerminal(st.value)
           THEN /\ w_pc' = "returned"
                /\ w_ret' = st.value
           ELSE /\ w_pc' = "sleep"
                /\ UNCHANGED w_ret
    /\ UNCHANGED srv_settled
    /\ UNCHANGED <<cfg_username, server, job_spec, jobtype_vars, job, last, jobset_vars>>

\* One iteration of the loop up to its return or its time.sleep(30).  The
\* loop has no bound; the model stops after MaxPolls queries, and allows one
\* more once the server has settled.
WaitPoll ==
    /\ w_pc = "poll"
    /\ Len(w_obs) < MaxPolls \/ (srv_settled /\ Len(w_obs) = MaxPolls)
    /\ \E resp \in WaitResponses :
        LET st == get_status(resp) IN
        /\ w_obs' = Append(w_obs, st)
        /\ IF st.error = NoError /\ IsTerminal(st.value)
           THEN /\ w_pc' = "returned"
                /\ w_ret' = st.value
           ELSE /\ w_pc' = "sleep"
                /\ UNCHANGED w_ret
    /\ UNCHANGED srv_settled
    /\ UNCHANGED <<cfg_username, server, job_spec, jobtype_vars, job, last, jobset_vars>>

\* Mutant: the loop is left after the delay instead of going round
WaitSleep_Leaves ==
    /\ w_pc = "sleep"
    /\ w_pc' = "returned"
    /\ UNCHANGED <<w_obs, w_ret, srv_settled>>
    /\ UNCHANGED <<cfg_username, server, job_spec, jobtype_vars, job, last, jobset_vars>>

\* time.sleep(30) ends and the loop goes round
WaitSleep ==
    /\ w_pc = "sleep"
    /\ w_pc' = "poll"
    /\ UNCHANGED <<w_obs, w_ret, srv_settled>>
    /\ UNCHANGED <<cfg_username, server, job_spec, jobtype_vars, job, last, jobset_vars>>

OneWorld ==
    /\ cfg_username = Str("alice")
    /\ server = [schema |-> Schema1, queues |-> QueuesOf(<<>>)]
    /\ job_spec = <<"job-hello", ":", "v1">>

InitWait ==
    /\ OneWorld /\ JobTypeNew
    /\ job = HeldJob /\ last = NoCall
    /\ WaitIdle /\ JobSetIdle

NextWait ==
    \/ WaitStart
    \/ WaitPoll
    \/ WaitSleep
    \/ ServerSettle

SpecWait == InitWait /\ [][NextWait]_vars

\* The calling thread runs on: a sleep ends and a status query is answered
SpecWaitFair ==
    /\ SpecWait
    /\ WF_vars(WaitStart)
    /\ WF_vars(WaitPoll)
    /\ WF_vars(WaitSleep)

-----------------------------------------------------------------------------
(* JobSet.wait_for_completion *)

MaxJobs == 3
MaxPasses == 2

\* A JobSet of n members, as built by the constructor or by append
JobSetOf(n) == [i \in 1..n |-> IF i % 2 = 1 THEN HeldJob ELSE OtherJob]

\* time.sleep(3), then the first pass starts: time.sleep(0.5); completed_jobs = 0
JobSetWaitStart ==
    /\ js_pc = "idle"
    /\ js_pc' = "pass"
    /\ js_pass' = 1
    /\ js_obs' = <<>>
    /\ completed_jobs' = 0
    /\ UNCHANGED <<job_set, js_errored, js_repolled>>
    /\ UNCHANGED <<cfg_username, server, job_spec, jobtype_vars, job, last, wait_vars>>

\* Mutant: a query that raised does not count the member as done
CountDone_TerminalOnly(st) == IF st.error = NoError /\ IsTerminal(st.value) THEN 1 ELSE 0

\* What one member adds to completed_jobs
CountDone(st) == IF st.error # NoError THEN 1 ELSE IF IsTerminal(st.value) THEN 1 ELSE 0

\* Mutant: a member whose query raised in an earlier pass is counted done
\* without being queried again
JobSetPoll_SkipErrored ==
    /\ js_pc = "pass"
    /\ Len(js_obs) < Len(job_set)
    /\ \E resp \in StatusResponses :
        LET i == Len(js_obs) + 1
            st == IF i \in js_errored THEN [error |-> Err("Skipped", ""), value |-> None]
                  ELSE get_status(resp)
        IN  /\ js_obs' = Append(js_obs, st)
            /\ completed_jobs' = completed_jobs + CountDone(st)
    /\ UNCHANGED <<job_set, js_pc, js_pass, js_errored, js_repolled>>
    /\ UNCHANGED <<cfg_username, server, job_spec, jobtype_vars, job, last, wait_vars>>

\* The body of `for job in self.job_set` for the next member
JobSetPoll ==
    /\ js_pc = "pass"
    /\ Len(js_obs) < Len(job_set)
    /\ \E resp \in StatusResponses :
        LET st == get_status(resp)
            i == Len(js_obs) + 1
        IN  /\ js_obs' = Append(js_obs, st)
            /\ completed_jobs' = completed_jobs + CountDone(st)
            /\ js_repolled' = IF i \in js_errored THEN js_repolled \cup {i} ELSE js_repolled
    /\ UNCHANGED <<job_set, js_pc, js_pass, js_errored>>
    /\ UNCHANGED <<cfg_username, server, job_spec, jobtype_vars, job, last, wait_vars>>

\* if completed_jobs == len(self.job_set): return
JobSetPassEnd ==
    /\ js_pc = "pass"
    /\ Len(js_obs) = Len(job_set)
    /\ js_pc' = IF completed_jobs = Len(job_set) THEN "returned" ELSE "sleep"
    /\ UNCHANGED <<job_set, js_pass, js_obs, completed_jobs, js_errored, js_repolled>>
    /\ UNCHANGED <<cfg_username, server, job_spec, jobtype_vars, job, last, wait_vars>>

\* time.sleep(30) ends; the next pass starts: time.sleep(0.5); completed_jobs = 0
JobSetNextPass ==
    /\ js_pc = "sleep"
    /\ js_pass < MaxPasses
    /\ js_pc' = "pass"
    /\ js_pass' = js_pass + 1
    /\ js_obs' = <<>>
    /\ completed_jobs' = 0
    /\ js_errored' = js_errored \cup {i \in 1..Len(js_obs) : js_obs[i].error # NoError}
    /\ UNCHANGED <<job_set, js_repolled>>
    /\ UNCHANGED <<cfg_username, server, job_spec, jobtype_vars, job, last, wait_vars>>

InitJobSet ==
    /\ OneWorld /\ JobTypeNew
    /\ job = HeldJob /\ last = NoCall
    /\ WaitIdle
    /\ job_set \in {JobSetOf(n) : n \in 0..MaxJobs}
    /\ js_pc = "idle" /\ js_pass = 0 /\ js_obs = <<>>
    /\ completed_jobs = 0 /\ js_errored = {} /\ js_repolled = {}

NextJobSet ==
    \/ JobSetWaitStart
    \/ JobSetPoll
    \/ JobSetPassEnd
    \/ JobSetNextPass

SpecJobSet == InitJobSet /\ [][NextJobSet]_vars

-----------------------------------------------------------------------------
(* JobSet.__init__ and JobSet.append *)

\* x.__class__ == Job
IsJobObject(x) == x.t = "Job"

SubmittedJob == [job_id |-> Str("job-999"), tags |-> List(<<Str("mytag")>>)]
JobObjects == {JobValue(HeldJob), JobValue(OtherJob), JobValue(SubmittedJob)}
NonJobObjects == {None, Str("job-1")}

\* Arguments of the constructor
JobSetArgs ==
    {None, List(<<>>), List(<<JobValue(HeldJob)>>),
     List(<<JobValue(OtherJob), JobValue(HeldJob)>>),
     List(<<JobValue(HeldJob), Str("job-1")>>), Str("job-1")}

\* JobSet(job_set): [error, job_set]
JobSetNew(arg) ==
    IF arg.t = "none" THEN [error |-> NoError, job_set |-> <<>>]
    ELSE IF arg.t # "list"
    THEN [error |-> Err("TypeError", "job_set must be a List[<Job>]"), job_set |-> <<>>]
    ELSE IF \E i \in DOMAIN arg.v : ~IsJobObject(arg.v[i])
    THEN [error |-> Err("TypeError", "all entries in job_set must be of type <Job>"),
          job_set |-> <<>>]
    ELSE [error |-> NoError, job_set |-> [i \in DOMAIN arg.v |-> arg.v[i].v]]

\* The constructor call; a constructor that raised leaves no JobSet behind
JobSetInit ==
    /\ last = NoCall
    /\ \E arg \in JobSetArgs :
        LET new == JobSetNew(arg) IN
        /\ last' = Call("JobSet", [job_set |-> arg], <<>>, <<>>, new.error, None)
        /\ job_set' = new.job_set
    /\ UNCHANGED <<js_pc, js_pass, js_obs, completed_jobs, js_errored, js_repolled>>
    /\ UNCHANGED <<cfg_username, server, job_spec, jobtype_vars, job, wait_vars>>

\* Mutant: append takes any object
JobSetAppend_NoCheck ==
    /\ last.op = "append" \/ (last.op = "JobSet" /\ last.outcome = "return")
    /\ Len(job_set) < MaxJobs
    /\ \E x \in JobObjects \cup NonJobObjects :
        /\ last' = Call("append", [job |-> x], <<>>, <<>>, NoError, None)
        /\ job_set' = Append(job_set, IF IsJobObject(x) THEN x.v ELSE x)
    /\ UNCHANGED <<js_pc, js_pass, js_obs, completed_jobs, js_errored, js_repolled>>
    /\ UNCHANGED <<cfg_username, server, job_spec, jobtype_vars, job, wait_vars>>

\* JobSet.append(job) on a constructed JobSet
JobSetAppend ==
    /\ last.op = "append" \/ (last.op = "JobSet" /\ last.outcome = "return")
    /\ \E x \in JobObjects \cup NonJobObjects :
        IF ~IsJobObject(x)
        THEN /\ last' = Call("append", [job |-> x], <<>>, <<>>,
                             Err("TypeError", "appended job must be of type <Job>"), None)
             /\ UNCHANGED job_set
        ELSE /\ Len(job_set) < MaxJobs
             /\ last' = Call("append", [job |-> x], <<>>, <<>>, NoError, None)
             /\ job_set' = Append(job_set, x.v)
    /\ UNCHANGED <<js_pc, js_pass, js_obs, completed_jobs, js_errored, js_repolled>>
    /\ UNCHANGED <<cfg_username, server, job_spec, jobtype_vars, job, wait_vars>>

InitJobSetBuild ==
    /\ OneWorld /\ JobTypeNew
    /\ job = HeldJob /\ last = NoCall
    /\ WaitIdle /\ JobSetIdle

NextJobSetBuild ==
    \/ JobSetInit
    \/ JobSetAppend

SpecJobSetBuild == InitJobSetBuild /\ [][NextJobSetBuild]_vars

-----------------------------------------------------------------------------
(* Mozart.get_jobs *)

\* Mozart.STATUS_TYPES
STATUS_TYPES == {Str(QUEUED), Str(STARTED), Str(COMPLETED), Str(FAILED), Str(OFFLINE)}

PageSize == 100
MaxPages == 2

Datetime(iso) == [t |-> "datetime", v |-> iso]

\* x.isoformat() if x.__class__ in (datetime, date) else x
IsoFormat(x) == IF x.t = "datetime" THEN Str(x.v) ELSE x

\* priority < 0 -> 0, priority > 9 -> 9
ClampPriority(priority) ==
    IF priority.v < 0 THEN Num(0) ELSE IF priority.v > 9 THEN Num(9) ELSE priority

\* Mutant: the status filter is not checked
StatusAccepted_Any(status) == TRUE

\* The status filter passes the check of get_jobs
StatusAccepted(status) == status \in STATUS_TYPES

\* params[name] = value if the filter is given
AddFilter(params, name, value) == IF value = None THEN params ELSE DictSet(params, name, value)

\* The query parameters get_jobs builds from its filters
FilterParams(a) ==
    LET p1 == AddFilter(EmptyDict, "tag", a.tag)
        p2 == AddFilter(p1, "job_type", a.job_type)
        p3 == AddFilter(p2, "queue", a.queue)
        p4 == IF a.priority = None THEN p3 ELSE DictSet(p3, "priority", ClampPriority(a.priority))
        p5 == AddFilter(p4, "status", a.status)
        p6 == AddFilter(p5, "start_time", IsoFormat(a.start_time))
    IN  AddFilter(p6, "end_time", IsoFormat(a.end_time))

\* Mutant: each job of a page is put in front of the jobs collected so far
RECURSIVE AppendPage_Prepend(_, _, _)
AppendPage_Prepend(result, i, jobs) ==
    IF i > Len(result) THEN [error |-> NoError, jobs |-> jobs]
    ELSE LET new == JobNew(result[i].id, result[i].tags) IN
         IF new.error # NoError THEN [error |-> new.error, jobs |-> jobs]
         ELSE AppendPage_Prepend(result, i + 1, <<new.job>> \o jobs)

\* js.append(Job(_id, tags)) for every job of a page: [error, jobs]
RECURSIVE AppendPage(_, _, _)
AppendPage(result, i, jobs) ==
    IF i > Len(result) THEN [error |-> NoError, jobs |-> jobs]
    ELSE LET new == JobNew(result[i].id, result[i].tags) IN
         IF new.error # NoError THEN [error |-> new.error, jobs |-> jobs]
         ELSE AppendPage(result, i + 1, Append(jobs, new.job))

\* The `while True` loop of get_jobs against the pages the server answers with:
\* [error, sent, jobs]
RECURSIVE Paginate(_, _, _, _, _, _, _)
Paginate(pages, i, offset, params, sent, recv, jobs) ==
    LET q == DictSet(DictSet(params, "page_size", Num(PageSize)), "offset", Num(offset))
        req == Req("GET", "mozart/api/v0.1/job/user", q)
        page == pages[i]
        added == AppendPage(page.result, 1, jobs)
        sent1 == Append(sent, req)
        recv1 == Append(recv, page)
    IN  IF page.status_code # 200
        THEN [error |-> HttpError(page), sent |-> sent1, recv |-> recv1, jobs |-> jobs]
        ELSE IF Len(page.result) < 1
        THEN [error |-> NoError, sent |-> sent1, recv |-> recv1, jobs |-> jobs]
        ELSE IF added.error # NoError
        THEN [error |-> added.error, sent |-> sent1, recv |-> recv1, jobs |-> added.jobs]
        ELSE Paginate(pages, i + 1, offset + 100, q, sent1, recv1, added.jobs)

Listed1 == [id |-> Str("job-1"), tags |-> List(<<Str("t0")>>)]
Listed2 == [id |-> Str("job-2"), tags |-> Str("t1")]
FullPages == {Ok(<<Listed1>>), Ok(<<Listed2, Listed1>>)}
LastPages == {Ok(<<>>), Fail}

\* What the server answers page after page: some pages of jobs, then an empty
\* page or an error
PageScripts ==
    UNION {{Append(f, l) : f \in [1..n -> FullPages], l \in LastPages} : n \in 0..MaxPages}

StatusArgs == {None, Str("job-revoked")} \cup {Str(st) : st \in JobStatuses}

GetJobsArgs ==
    [tag : {None, Str("mytag")},
     job_type : {None},
     queue : {None, Str("q1")},
     priority : {None, Num(-1), Num(10)},
     status : StatusArgs,
     start_time : {None, Datetime("2020-01-01T00:00:00")},
     end_time : {None}]

JobSetValue(jobs) == [t |-> "JobSet", v |-> jobs]

\* Mozart.get_jobs(tag, job_type, queue, priority, status, start_time, end_time).
\* The driver keeps no state between calls, so the call on the driver as
\* constructed is every call.
GetJobs ==
    /\ last = NoCall
    /\ \E a \in GetJobsArgs, pages \in PageScripts :
        LET r == Paginate(pages, 1, 0, FilterParams(a), <<>>, <<>>, <<>>) IN
        last' =
          IF cfg_username = None
          THEN Call("get_jobs", a, <<>>, <<>>,
                    Err("RuntimeError", "username not found, please initialize otello"), None)
          ELSE IF a.status # None /\ ~StatusAccepted(a.status)
          THEN Call("get_jobs", a, <<>>, <<>>,
                    Err("RuntimeError", "job status must be in STATUS_TYPES"), None)
          ELSE IF r.error # NoError THEN Call("get_jobs", a, r.sent, r.recv, r.error, None)
          ELSE Call("get_jobs", a, r.sent, r.recv, NoError, JobSetValue(r.jobs))
    /\ UNCHANGED <<cfg_username, server, job_spec, jobtype_vars, job, wait_vars, jobset_vars>>

InitMozart ==
    /\ cfg_username \in Usernames
    /\ server = [schema |-> Schema1, queues |-> QueuesOf(<<>>)]
    /\ job_spec = <<"job-hello", ":", "v1">>
    /\ JobTypeNew
    /\ job = HeldJob /\ last = NoCall
    /\ WaitIdle /\ JobSetIdle

NextMozart == GetJobs

SpecMozart == InitMozart /\ [][NextMozart]_vars

-----------------------------------------------------------------------------
(* Properties *)

C_TerminalStatuses ==
    {Str("job-completed"), Str("job-failed"), Str("job-deduped"), Str("job-offline")}
C_NonTerminalStatuses == {Str("job-queued"), Str("job-started")}
C_SixStatuses == C_TerminalStatuses \cup C_NonTerminalStatuses

\* The request a submitting call posted, when it posted one
C_Posted == last.sent # <<>> /\ last.sent[Len(last.sent)].method = "POST"
C_Payload == last.sent[Len(last.sent)].data

\* C1: the params of the payload submit_job sends are the union of
\* dataset_params, hardwired_params and input_params; on a name bound in
\* several of them the input value wins over the hardwired and the dataset
\* value, and the hardwired value wins over the dataset value.
C1_MergePrecedence ==
    (last.op = "submit_job" /\ C_Posted) =>
        /\ DOMAIN C_Payload.params =
               DOMAIN dataset_params \cup DOMAIN hardwired_params \cup DOMAIN input_params
        /\ \A k \in DOMAIN C_Payload.params :
               C_Payload.params[k] =
                   json_dumps(IF k \in DOMAIN input_params THEN input_params[k]
                              ELSE IF k \in DOMAIN hardwired_params THEN hardwired_params[k]
                              ELSE dataset_params[k])

\* A submission with one name bound to three different values in the three mappings
C1_Witness ==
    /\ last.op = "submit_job" /\ C_Posted
    /\ \E k \in DOMAIN dataset_params \cap DOMAIN hardwired_params \cap DOMAIN input_params :
           /\ dataset_params[k] # hardwired_params[k]
           /\ hardwired_params[k] # input_params[k]
           /\ dataset_params[k] # input_params[k]

\* A status query that succeeded with a terminal / a non-terminal status
C_SawTerminal(st) == st.error = NoError /\ st.value \in C_TerminalStatuses
C_SawNonTerminal(st) == st.error = NoError /\ st.value \in C_NonTerminalStatuses

\* C2: Job.wait_for_completion returns only a terminal status, namely the one
\* of the first status query that succeeds with a terminal status; no query
\* is made after that one, and it does not return on job-queued or job-started.
C2_ReturnsOnFirstTerminal ==
    /\ w_pc = "returned" =>
           /\ w_ret \in C_TerminalStatuses
           /\ w_obs # <<>>
           /\ w_obs[Len(w_obs)].error = NoError
           /\ w_obs[Len(w_obs)].value = w_ret
    /\ w_pc # "returned" => w_ret = None
    /\ \A i \in 1..Len(w_obs) :
           C_SawTerminal(w_obs[i]) => (i = Len(w_obs) /\ w_pc = "returned")
    /\ (w_obs # <<>> /\ C_SawNonTerminal(w_obs[Len(w_obs)])) => w_pc # "returned"

\* The wait returned at its third query, after a job-queued answer and an error
C2_Witness ==
    /\ w_pc = "returned"
    /\ Len(w_obs) = 3
    /\ C_SawNonTerminal(w_obs[1])
    /\ w_obs[2].error # NoError

\* A member is counted done by an outcome: a terminal status or a raised query
C_CountedDone(st) == st.error # NoError \/ st.value \in C_TerminalStatuses

\* C3: in every pass of JobSet.wait_for_completion a member is counted done
\* exactly if its query returned a terminal status or raised; the call returns
\* at the end of a pass in which all members are counted done and goes on to
\* sleep at the end of a pass in which some member answered job-queued or
\* job-started.
C3_PassCounting ==
    /\ completed_jobs = Cardinality({i \in 1..Len(js_obs) : C_CountedDone(js_obs[i])})
    /\ js_pc = "returned" =>
           /\ Len(js_obs) = Len(job_set)
           /\ \A i \in 1..Len(js_obs) : C_CountedDone(js_obs[i])
    /\ js_pc = "sleep" =>
           /\ Len(js_obs) = Len(job_set)
           /\ \E i \in 1..Len(js_obs) : ~C_CountedDone(js_obs[i])
    /\ (\E i \in 1..Len(js_obs) : C_SawNonTerminal(js_obs[i])) => js_pc # "returned"

\* Three members answering job-completed, job-failed and an error: the wait
\* returned at the end of the first pass with all three counted done
C3_Witness ==
    /\ js_pc = "returned"
    /\ js_pass = 1
    /\ Len(job_set) = 3
    /\ Len(js_obs) = 3
    /\ js_obs[1].value = Str("job-completed")
    /\ js_obs[2].value = Str("job-failed")
    /\ js_obs[3].error # NoError
    /\ completed_jobs = 3

C5_PriorityNormalised ==
    (last.op \in {"submit_job", "revoke", "remove", "retry"} /\ C_Posted) =>
        C_Payload.priority =
            IF last.args.priority \in 0..9 THEN last.args.priority ELSE 5

\* A submitter parameter of the schema with no default and optional = false
\* that has no value
C_RequiredUnset(p) ==
    /\ p.from = <<"submitter">>
    /\ "default" \notin DOMAIN p
    /\ ~DictGet(p, "optional", FALSE)
    /\ DictGet(input_params, p.name, None) = None

\* The queue argument of the last call is None or names a queue
C_QueueNoneOrNamed == last.args.queue = None \/ Truthy(last.args.queue)

\* C6: submit_job on a JobType whose schema has a required submitter parameter
\* without default that was given no value fails and sends no request.
C6_RequiredParamRejected ==
    (/\ last.op = "submit_job"
     /\ C_QueueNoneOrNamed
     /\ DOMAIN hysds_ios # {}
     /\ \E i \in 1..Len(hysds_ios.params) : C_RequiredUnset(hysds_ios.params[i]))
    => (last.outcome = "raise" /\ last.sent = <<>>)

\* C7: on a JobType whose schema is not resolved, describe() and
\* set_input_dataset(dataset) fail with the not-initialized error, and
\* submit_job fails, with an explicit queue too; none of them sends a request.
C7_UninitializedRejected ==
    DOMAIN hysds_ios = {} =>
        /\ last.op = "describe" => (last.error = NotInitialized /\ last.sent = <<>>)
        /\ (last.op = "set_input_dataset" /\ last.args.dataset # None) =>
               (last.error = NotInitialized /\ last.sent = <<>>)
        /\ (last.op = "submit_job" /\ C_QueueNoneOrNamed) =>
               (last.outcome = "raise" /\ last.sent = <<>>)

\* get_jobs with a status filter, `accepted` being the statuses it takes: an
\* accepted status is the 'status' parameter of every request of the call (a
\* driver without username sends none), any other status ends the call before
\* a request is sent.
C_StatusFilter(accepted) ==
    (last.op = "get_jobs" /\ last.args.status # None) =>
        IF last.args.status \in accepted
        THEN cfg_username # None =>
                 /\ last.sent # <<>>
                 /\ \A i \in 1..Len(last.sent) :
                        /\ "status" \in DOMAIN last.sent[i].data
                        /\ last.sent[i].data.status = last.args.status
        ELSE last.outcome = "raise" /\ last.sent = <<>>

\* C8 as stated: each of the six job states is accepted as status filter and
\* sent; any other value fails before a request is sent.
C8_SixStatusesAccepted == C_StatusFilter(C_SixStatuses)

\* C8 as amended: the five states of STATUS_TYPES (job-queued, job-started,
\* job-completed, job-failed, job-offline) are accepted and sent; any other
\* value, job-deduped included, fails before a request is sent.
C8_FiveStatusesAccepted == C_StatusFilter(C_SixStatuses \ {Str("job-deduped")})

\* A listing filtered by job-failed that went through two pages or more
C8_Witness ==
    /\ last.op = "get_jobs"
    /\ last.args.status = Str("job-failed")
    /\ Len(last.sent) >= 2
    /\ last.outcome = "return"

\* C9: submit_job with no queue argument and no default_queue fails before a
\* request is sent; otherwise the queue of the payload is the queue argument
\* when one was given and default_queue when none was given.
C9_QueueResolution ==
    last.op = "submit_job" =>
        /\ (last.args.queue = None /\ default_queue = None) =>
               (last.outcome = "raise" /\ last.sent = <<>>)
        /\ C_Posted =>
               C_Payload.queue =
                   IF last.args.queue # None THEN last.args.queue ELSE default_queue

\* The tag of the last submission: the one supplied, or the generated one
C_SubmissionTag ==
    IF last.args.tag = None THEN generate_tags("submit_job", last.args.now) ELSE last.args.tag

\* C10: the request of submit_job carries the full job_spec as type, the part
\* of job_spec before its first ':' as job_name, the submission tag as a
\* one-element list and enable_dedup false; on a success response the call
\* returns a Job with the job id of the response and the one-element list of
\* the submission tag as tags.
C10_SubmitReturnsJob ==
    last.op = "submit_job" =>
        /\ last.sent # <<>> =>
               /\ Len(last.sent) = 1
               /\ C_Payload.type = Str(Join(job_spec))
               /\ job_spec[2] = ":" => C_Payload.job_name = Str(job_spec[1])
               /\ C_Payload.tags = Str("[\"" \o C_SubmissionTag.v \o "\"]")
               /\ C_Payload.enable_dedup = Bool(FALSE)
        /\ last.outcome = "return" <=> (last.sent # <<>> /\ last.recv[1].status_code = 200)
        /\ last.outcome = "return" =>
               last.ret = [t |-> "Job",
                           v |-> [job_id |-> last.recv[1].result,
                                  tags |-> List(<<C_SubmissionTag>>)]]

\* A submission without tag, of a job_spec with two ':', that returned a Job
C10_Witness ==
    /\ last.op = "submit_job"
    /\ last.outcome = "return"
    /\ last.args.tag = None
    /\ Len(job_spec) > 3

\* The default a submitter parameter is seeded with: a number given as text is
\* the number, a boolean given as text is whether the text is 'true' in any
\* case, anything else is the default as given, None when there is none.
C_CoercedDefault(p) ==
    LET d == IF "default" \in DOMAIN p THEN p.default ELSE None IN
    IF p.type = "number" /\ d.t = "str" THEN LiteralEval(d.v)
    ELSE IF p.type = "boolean" /\ d.t = "str" THEN Bool(d.v \in {"true", "True", "TRUE"})
    ELSE d

\* Parameter i is the last one of its origin and name in the schema
C_LastOfName(params, i) ==
    \A j \in (i + 1)..Len(params) :
        ~(params[j].from = params[i].from /\ params[j].name = params[i].name)

\* The bindings are those the schema seeds: every value-origin parameter in
\* hardwired_params with its value and nothing else there, every
\* submitter-origin parameter in input_params with its coerced default.
C_SeededFrom(params) ==
    /\ DOMAIN hardwired_params = {params[i].name : i \in {j \in 1..Len(params) :
                                                          params[j].from = <<"value">>}}
    /\ \A i \in 1..Len(params) :
           /\ (params[i].from = <<"value">> /\ C_LastOfName(params, i)) =>
                  hardwired_params[params[i].name] = params[i].value
           /\ (params[i].from = <<"submitter">> /\ C_LastOfName(params, i)) =>
                  /\ params[i].name \in DOMAIN input_params
                  /\ input_params[params[i].name] = C_CoercedDefault(params[i])

\* C11: after an initialize() that got through the seeding, hardwired_params
\* and input_params hold what the schema seeds (a function of the schema); on
\* a JobType on which nothing else was called input_params holds nothing
\* else; and an initialize() that directly follows an initialize() that
\* received the schema leaves hardwired_params and input_params as they were.
C11_InitializeIdempotent ==
    /\ []((last.op = "initialize" /\ Len(last.sent) = 2) => C_SeededFrom(server.schema.params))
    /\ [][(last.op = "new" /\ last'.op = "initialize" /\ Len(last'.sent) = 2)
           => DOMAIN input_params' =
                  {server.schema.params[i].name :
                       i \in {j \in 1..Len(server.schema.params) :
                                  server.schema.params[j].from = <<"submitter">>}}]_vars
    /\ [][(/\ last.op = "initialize"
            /\ last.recv[1].status_code = 200
            /\ last'.op = "initialize")
           => (hardwired_params' = hardwired_params /\ input_params' = input_params)]_vars

\* initialize() returned on a schema whose parameter k1 is hardwired and has
\* the numeric default "5" given as text
C11_Witness ==
    /\ last.op = "initialize" /\ last.outcome = "return"
    /\ "k1" \in DOMAIN hardwired_params /\ hardwired_params["k1"] = Str("hw")
    /\ "k1" \in DOMAIN input_params /\ input_params["k1"] = Num(5)

\* C12: set_input_params(params) with a dict sets input_params[k] = params[k]
\* for every key of params and leaves every other key of input_params as it
\* was; with anything else it raises and leaves input_params as it was; in
\* both cases hardwired_params, dataset_params, the schema and the queues are
\* as before.
C12_SetInputParamsFrame ==
    [][last'.op = "set_input_params" =>
         /\ UNCHANGED <<hardwired_params, dataset_params, hysds_ios, queues, default_queue>>
         /\ IF last'.args.params.t = "dict"
            THEN /\ last'.outcome = "return"
                 /\ DOMAIN input_params' = DOMAIN input_params \cup DOMAIN last'.args.params.v
                 /\ \A k \in DOMAIN input_params' :
                        input_params'[k] = IF k \in DOMAIN last'.args.params.v
                                           THEN last'.args.params.v[k]
                                           ELSE input_params[k]
            ELSE /\ last'.outcome = "raise"
                 /\ input_params' = input_params]_vars

\* set_input_params({'k1': 'u1'}) on a JobType seeded with k1 = 7 and k2 = True:
\* k1 is overwritten, the default of k2 is kept
C12_Witness ==
    /\ last.op = "set_input_params"
    /\ last.args.params = Dict("k1" :> Str("u1"))
    /\ DOMAIN input_params = {"k1", "k2"}
    /\ input_params["k1"] = Str("u1")
    /\ input_params["k2"] = Bool(TRUE)

\* C13: when the server's record of the job has status job-failed,
\* get_exception returns its 'error' field and get_traceback its 'traceback'
\* field; with any of the five other statuses both fail with the
\* status-mismatch error and return nothing.
C13_FailedJobFields ==
    (last.op \in {"get_exception", "get_traceback"} /\ last.recv[1].status_code = 200) =>
        LET record == last.recv[1].result.v
            field == IF last.op = "get_exception" THEN "error" ELSE "traceback"
        IN  IF record["status"] = Str("job-failed")
            THEN field \in DOMAIN record =>
                     (last.outcome = "return" /\ last.ret = record[field])
            ELSE /\ record["status"] \in C_SixStatuses
                 /\ last.outcome = "raise"
                 /\ last.error.type = "ValueError"
                 /\ last.ret = None

\* get_traceback returned the traceback of a failed job
C13_Witness ==
    /\ last.op = "get_traceback"
    /\ last.outcome = "return"
    /\ last.recv[1].result.v["status"] = Str("job-failed")
    /\ last.ret = Str("Traceback (most recent call last)")

C_ManageOps == {"revoke", "remove", "retry"}

\* The job id the purge query of a revoke or remove payload selects
C_PurgeTarget == C_Payload.params["query"]["query"]["bool"]["must"][1]["term"]["_id"]

\* The handle returned by a management action is a new Job with the id the
\* server returned for the management job and the tag of the management job
C_ReturnsManagementJob ==
    last.outcome = "return" =>
        /\ last.ret.t = "Job"
        /\ last.ret.v.job_id = last.recv[Len(last.recv)].result
        /\ last.ret.v.job_id # job.job_id

\* C14 as stated: the job submitted by revoke, remove and retry targets the
\* job_id of the Job it was called on, and the call returns a new Job with
\* the id the server returned.
C14_TargetsOwnJobId ==
    (last.op \in C_ManageOps) =>
        /\ C_Posted =>
               IF last.op = "retry"
               THEN C_Payload.params["retry_job_id"] = json_dumps(job.job_id)
               ELSE C_PurgeTarget = json_dumps(job.job_id)
        /\ C_ReturnsManagementJob

\* C14 as amended: revoke and remove target the job_id of the Job they were
\* called on; retry queries the server's record of that job_id and targets the
\* id found at job.job_info.id of that record; on success each returns a new
\* Job with the id the server returned for the management job; the Job the
\* action was called on keeps its job_id and tags, on success and on failure.
C14_TargetsJobOrItsRecord ==
    /\ []((last.op \in C_ManageOps) =>
             /\ C_Posted =>
                    IF last.op = "retry"
                    THEN /\ last.sent[1].endpoint = "mozart/api/v0.1/job/info"
                         /\ last.sent[1].data.id = job.job_id
                         /\ C_Payload.params["retry_job_id"] =
                                json_dumps(last.recv[1].result.v["job"].v["job_info"].v["id"])
                    ELSE C_PurgeTarget = json_dumps(job.job_id)
             /\ C_ReturnsManagementJob)
    /\ [][last'.op \in C_ManageOps => job' = job]_vars

\* retry returned the Job of the retry job
C14_Witness ==
    /\ last.op = "retry"
    /\ last.outcome = "return"
    /\ last.ret.v.job_id = Str("job-999")
    /\ job.job_id = Str("job-1")

\* C16: a non-200 response to a request of get_status, get_info,
\* get_generated_products, initialize or submit_job ends the call at once with
\* an error whose detail is the body of that response: it is the last response
\* of the call, the request it answers was sent once, nothing is returned.
C16_HttpFailurePropagates ==
    (last.op \in {"get_status", "get_info", "get_generated_products",
                  "initialize", "submit_job"}) =>
        \A i \in 1..Len(last.recv) :
            last.recv[i].status_code # 200 =>
                /\ i = Len(last.recv)
                /\ Len(last.sent) = Len(last.recv)
                /\ \A j \in 1..Len(last.sent) :
                       j # i => last.sent[j].endpoint # last.sent[i].endpoint
                /\ last.outcome = "raise"
                /\ last.error = [type |-> "Exception", msg |-> last.recv[i].text]
                /\ last.ret = None

\* initialize() failed on the answer to its second request, the queue list
C16_Witness ==
    /\ last.op = "initialize"
    /\ Len(last.recv) = 2
    /\ last.recv[2].status_code = 500
    /\ last.outcome = "raise"
    /\ last.error.msg = "internal server error"

\* C15: every element of job_set is a Job; append(j) with a Job puts j at the
\* end and keeps the elements before it, in their order, also when j is in the
\* collection already; append(x) with anything else raises TypeError and
\* leaves the collection as it was; no step removes or reorders elements; a
\* constructor given anything but None or a list of Jobs raises.
C15_AppendOnlyJobs ==
    /\ [](\A i \in 1..Len(job_set) : DOMAIN job_set[i] = {"job_id", "tags"})
    /\ []((last.op = "JobSet" /\ last.outcome = "return") =>
             \/ last.args.job_set.t = "none"
             \/ (/\ last.args.job_set.t = "list"
                 /\ \A i \in 1..Len(last.args.job_set.v) : last.args.job_set.v[i].t = "Job"))
    /\ [][last'.op = "append" =>
             IF last'.args.job.t = "Job"
             THEN /\ last'.outcome = "return"
                  /\ Len(job_set') = Len(job_set) + 1
                  /\ job_set'[Len(job_set')] = last'.args.job.v
                  /\ SubSeq(job_set', 1, Len(job_set)) = job_set
             ELSE /\ last'.outcome = "raise"
                  /\ last'.error.type = "TypeError"
                  /\ Len(job_set') = Len(job_set)
                  /\ job_set' = job_set]_vars
    /\ [][Len(job_set') >= Len(job_set) /\ SubSeq(job_set', 1, Len(job_set)) = job_set]_vars

\* A JobSet built from a list of two Jobs to which the second of them was
\* appended again
C15_Witness ==
    /\ last.op = "append"
    /\ last.outcome = "return"
    /\ Len(job_set) = 3
    /\ job_set[1] = OtherJob
    /\ job_set[2] = HeldJob
    /\ job_set[3] = HeldJob

\* A parameter whose origin starts with dataset_jpath, and the path its origin
\* names after the 'dataset_jpath:' and '_source.' prefixes
C_IsDatasetParam(p) == p.from[1] = "dataset_jpath:"
C_PathOf(p) == SubSeq(p.from, 3, Len(p.from))

\* The segments of a dot-separated path
C_Segments(path) == [i \in 1..((Len(path) + 1) \div 2) |-> path[2 * i - 1]]

\* The value reached in ds along the segments from segment i on, when there
\* is one
RECURSIVE C_Reach(_, _, _)
C_Reach(ds, segs, i) ==
    IF i > Len(segs) THEN [found |-> TRUE, value |-> ds]
    ELSE IF ds.t = "dict" /\ segs[i] \in DOMAIN ds.v THEN C_Reach(ds.v[segs[i]], segs, i + 1)
    ELSE [found |-> FALSE, value |-> None]

\* What a dataset parameter without extraction expression is to be bound to
C_Expected(p, dataset) ==
    IF C_PathOf(p) = <<"_id">> THEN C_Reach(dataset, <<"id">>, 1)
    ELSE C_Reach(dataset, C_Segments(C_PathOf(p)), 1)

C18_QueryErrorNotFatal ==
    /\ [](\A i \in 1..Len(w_obs) :
             w_obs[i].error # NoError =>
                 \/ (w_pc \in {"sleep", "poll"} /\ w_ret = None)
                 \/ (/\ w_pc = "returned"
                     /\ i < Len(w_obs)
                     /\ C_SawTerminal(w_obs[Len(w_obs)])
                     /\ w_ret = w_obs[Len(w_obs)].value))
    /\ [][w_pc = "sleep" => w_pc' \in {"sleep", "poll"}]_vars

\* The first query raised, the second answered job-completed, which was returned
C18_Witness ==
    /\ w_pc = "returned"
    /\ Len(w_obs) = 2
    /\ w_obs[1].error # NoError
    /\ w_ret = Str("job-completed")

\* C19: Job.wait_for_completion has returned exactly if some status query
\* succeeded with a terminal status; after a query that did not, the wait
\* queries again; and once the server answers every query with a terminal
\* status the wait returns.
C19_ReturnsIffTerminalSeen ==
    /\ [](w_pc = "returned" <=> \E i \in 1..Len(w_obs) : C_SawTerminal(w_obs[i]))
    /\ (w_pc = "sleep" /\ Len(w_obs) < MaxPolls) ~> (w_pc = "poll")
    /\ srv_settled ~> (w_pc = "returned")

\* The wait returned on the query after MaxPolls queries that answered
\* job-queued, job-started or raised
C19_Witness ==
    /\ w_pc = "returned"
    /\ srv_settled
    /\ Len(w_obs) = MaxPolls + 1
    /\ \A i \in 1..MaxPolls : ~C_SawTerminal(w_obs[i])

\* The Job a listed result stands for: its id, and its tags as a list
C_JobOf(item) ==
    [job_id |-> item.id,
     tags |-> IF item.tags.t = "str" THEN List(<<item.tags>>) ELSE item.tags]

\* The Jobs of the results of pages 1..n, in page order then in-page order
RECURSIVE C_Listed(_, _)
C_Listed(recv, n) ==
    IF n = 0 THEN <<>>
    ELSE C_Listed(recv, n - 1)
             \o [i \in 1..Len(recv[n].result) |-> C_JobOf(recv[n].result[i])]

\* The query parameters of a page request other than the paging ones
C_Filters(data) == [k \in DOMAIN data \ {"page_size", "offset"} |-> data[k]]

\* C20: the requests of get_jobs carry page_size 100 and the offsets 0, 100,
\* 200, ... in this order and the same filter parameters on every page; every
\* page before the last one answered with a non-empty result; when the last
\* page answered with an empty result the call returns a JobSet of one Job per
\* listed result of the pages before it, in page order then in-page order;
\* when it answered with a failure the call raises and returns nothing.
C20_Pagination ==
    (last.op = "get_jobs" /\ last.sent # <<>>) =>
        LET n == Len(last.recv) IN
        /\ Len(last.sent) = n
        /\ \A i \in 1..n :
               /\ last.sent[i].data["page_size"] = Num(100)
               /\ last.sent[i].data["offset"] = Num(100 * (i - 1))
               /\ C_Filters(last.sent[i].data) = C_Filters(last.sent[1].data)
        /\ \A i \in 1..(n - 1) :
               last.recv[i].status_code = 200 /\ Len(last.recv[i].result) >= 1
        /\ IF last.recv[n].status_code = 200
           THEN /\ Len(last.recv[n].result) = 0
                /\ last.outcome = "return"
                /\ last.ret = [t |-> "JobSet", v |-> C_Listed(last.recv, n - 1)]
           ELSE /\ last.outcome = "raise"
                /\ last.error = [type |-> "Exception", msg |-> last.recv[n].text]
                /\ last.ret = None

\* A listing of three jobs over two pages, ended by an empty third page
C20_Witness ==
    /\ last.op = "get_jobs"
    /\ last.outcome = "return"
    /\ Len(last.sent) = 3
    /\ last.sent[3].data["offset"] = Num(200)
    /\ Len(last.recv[1].result) = 2
    /\ Len(last.ret.v) = 3

\* C21: submit_job, whether it returns or raises, leaves hysds_ios, queues,
\* default_queue, dataset_params, hardwired_params and input_params as they
\* were, and a submission that directly follows a submission posts the same
\* params.
C21_SubmitReadsOnly ==
    /\ [][last'.op = "submit_job" =>
             UNCHANGED <<hysds_ios, queues, default_queue,
                         dataset_params, hardwired_params, input_params>>]_vars
    /\ [][(/\ last.op = "submit_job" /\ last.sent # <<>>
            /\ last'.op = "submit_job" /\ last'.sent # <<>>)
           => last'.sent[1].data.params = last.sent[1].data.params]_vars

\* A submission returned a Job from a JobType with bound dataset, hardwired
\* and input parameters, which it still holds
C21_Witness ==
    /\ last.op = "submit_job"
    /\ last.outcome = "return"
    /\ DOMAIN dataset_params # {}
    /\ DOMAIN hardwired_params # {}
    /\ DOMAIN input_params # {}
    /\ last.sent[1].data.params =
           json_dumps(Dict(MergedParams(dataset_params, hardwired_params, input_params)))

\* The names of the submitter-origin parameters of a schema
C_SubmitterNames(params) ==
    {params[i].name : i \in {j \in 1..Len(params) : params[j].from = <<"submitter">>}}

\* C22: an initialize() that gets through the seeding sets input_params[k] to
\* the coerced schema default of k (None when it has none) for every
\* submitter parameter k of the schema, whatever value set_input_params gave
\* it before, and leaves every other key of input_params with its value.
C22_InitializeReseeds ==
    [][(last'.op = "initialize" /\ Len(last'.sent) = 2) =>
         LET params == last'.recv[1].result.params IN
         /\ DOMAIN input_params' = DOMAIN input_params \cup C_SubmitterNames(params)
         /\ \A i \in 1..Len(params) :
                (params[i].from = <<"submitter">> /\ C_LastOfName(params, i)) =>
                    input_params'[params[i].name] = C_CoercedDefault(params[i])
         /\ \A k \in DOMAIN input_params \ C_SubmitterNames(params) :
                input_params'[k] = input_params[k]]_vars

\* initialize() on a JobType to which set_input_params had given k1 and k2:
\* k1, a submitter parameter of the schema, is back at its default 5, and k2,
\* which the schema does not name, kept its value
C22_Witness ==
    /\ last.op = "initialize"
    /\ Len(last.sent) = 2
    /\ C_SubmitterNames(hysds_ios.params) = {"k1"}
    /\ input_params = ("k1" :> Num(5)) @@ ("k2" :> Str("u2"))

====
